---- MODULE Spec2Model ----
(***************************************************************************)
(* Model of the offer engine of django-oscar (machtfit fork):              *)
(*   oscar/apps/offer/models.py  ConditionalOffer, Condition, Benefit,     *)
(*                               result types, PercentageDiscountBenefit   *)
(*   oscar/apps/offer/utils.py   Applicator                                *)
(*                                                                         *)
(* Money is counted in cents (Decimal with two places), percentages in     *)
(* whole percent, datetimes as positive integers.  Python's None is the    *)
(* integer NoneVal.                                                        *)
(***************************************************************************)
EXTENDS Integers, Sequences, FiniteSets, TLC

VARIABLES
    offer,          \* the ConditionalOffer of the lifecycle and cap specifications
    op,             \* the last operation on that offer
    pc,             \* position of Applicator.apply: start, apply, done, raised
    owner,          \* basket.owner, the user apply_offers receives
    sources,        \* what the four offer getters of get_offers return
    offers,         \* the list get_offers returns
    lines,          \* the SetOfLines of the pass
    idx,            \* apply_offers: index of the offer of the for loop
    tries,          \* apply_offers: the while loop's num_applications
    applications,   \* apply_offers: the recorded (offer, result) pairs
    last,           \* the last apply_benefit call: inputs, outcome
    basket,         \* the basket lines' discounts, written when the pass settles
    settled,        \* the settlements of the passes run so far on the basket
    rng,            \* the Range instance of the membership specification
    stored,         \* the offers and vouchers in the database, and the clock
    checkout        \* the concurrent checkouts: position, offer as loaded

offervars == <<offer, op>>

passvars ==
    <<pc, owner, sources, offers, lines, idx, tries, applications, last, basket,
      settled, rng, stored, checkout>>

vars == <<offer, op, pc, owner, sources, offers, lines, idx, tries,
          applications, last, basket, settled, rng, stored, checkout>>

\* ------------------------------------------------------------------ bounds

\* largest cap value an administrator enters (caps range over None, 0..MaxCap)
MaxCap == 2
\* largest value of a usage counter in the inputs of the cap functions
MaxCount == 2
\* number of record_usage calls (completed orders) followed per offer
MaxOrders == 2
\* largest frequency a single order records
MaxFreq == 1
\* largest discount amount (cents) a single order records
MaxAmount == 1
\* latest instant of the modelled clock; instants are 1..MaxDate
MaxDate == 3
\* largest quantity of a basket line
MaxQty == 2
\* largest number of offers one offer getter returns
MaxFetched == 2
\* number of times Applicator.apply is run on one basket snapshot
MaxRuns == 2

\* --------------------------------------------------------------- constants

NoneVal == -1

\* ConditionalOffer.OPEN, SUSPENDED, CONSUMED
OPEN == "Open"
SUSPENDED == "Suspended"
CONSUMED == "Consumed"

\* the upper limit get_max_applications hard-codes
HardLimit == 10000

\* the limit _effective_max_affected_items falls back to
NoItemLimit == 10000

\* ----------------------------------------------------------------- helpers

\* Python truthiness of an optional number: None and 0 are false
Truthy(x) == x # NoneVal /\ x # 0

\* Python truthiness of an optional object (a user, a datetime): None is false
IsSet(x) == x # NoneVal

Max(a, b) == IF a >= b THEN a ELSE b

MinOf(S) == CHOOSE x \in S : \A y \in S : x <= y

\* the anonymous user (None) and one signed-in user
Users == {NoneVal, 1}

Dates == 1..MaxDate

\* an availability bound is missing or is instant 2, so that the instants
\* tested fall before, on and after it
WindowBounds == {NoneVal, 2}

CapValues == {NoneVal} \cup (0..MaxCap)

\* ------------------------------------------------------ ConditionalOffer

\* OrderDiscount aggregate of past applications of the offer by the user;
\* the field user_frequency holds Sum('frequency') for the signed-in user,
\* NoneVal when there is no OrderDiscount row
get_num_user_applications(self, user) ==
    IF self.user_frequency # NoneVal THEN self.user_frequency ELSE 0

get_max_applications_noclamp(self, user) ==
    IF Truthy(self.max_discount) /\ self.total_discount >= self.max_discount
    THEN 0
    ELSE MinOf({HardLimit}
           \cup (IF Truthy(self.max_user_applications) /\ IsSet(user)
                 THEN {Max(0, self.max_user_applications
                                - get_num_user_applications(self, user))}
                 ELSE {})
           \cup (IF Truthy(self.max_basket_applications)
                 THEN {self.max_basket_applications} ELSE {})
           \cup (IF Truthy(self.max_global_applications)
                 THEN {self.max_global_applications - self.num_applications}
                 ELSE {}))

get_max_applications_anyuser(self, user) ==
    IF Truthy(self.max_discount) /\ self.total_discount >= self.max_discount
    THEN 0
    ELSE MinOf({HardLimit}
           \cup (IF Truthy(self.max_user_applications)
                 THEN {Max(0, self.max_user_applications
                                - get_num_user_applications(self, user))}
                 ELSE {})
           \cup (IF Truthy(self.max_basket_applications)
                 THEN {self.max_basket_applications} ELSE {})
           \cup (IF Truthy(self.max_global_applications)
                 THEN {Max(0, self.max_global_applications
                                - self.num_applications)}
                 ELSE {}))

get_max_applications_no_ceiling(self, user) ==
    MinOf({HardLimit}
      \cup (IF Truthy(self.max_user_applications) /\ IsSet(user)
            THEN {Max(0, self.max_user_applications
                           - get_num_user_applications(self, user))}
            ELSE {})
      \cup (IF Truthy(self.max_basket_applications)
            THEN {self.max_basket_applications} ELSE {})
      \cup (IF Truthy(self.max_global_applications)
            THEN {Max(0, self.max_global_applications
                           - self.num_applications)}
            ELSE {}))

get_max_applications(self, user) ==
    IF Truthy(self.max_discount) /\ self.total_discount >= self.max_discount
    THEN 0
    ELSE MinOf({HardLimit}
           \cup (IF Truthy(self.max_user_applications) /\ IsSet(user)
                 THEN {Max(0, self.max_user_applications
                                - get_num_user_applications(self, user))}
                 ELSE {})
           \cup (IF Truthy(self.max_basket_applications)
                 THEN {self.max_basket_applications} ELSE {})
           \cup (IF Truthy(self.max_global_applications)
                 THEN {Max(0, self.max_global_applications
                                - self.num_applications)}
                 ELSE {}))

is_suspended(self) == self.status = SUSPENDED

save_no_rederive(self) == self

save_always_rederive(self) ==
    [self EXCEPT !.status = IF get_max_applications(self, NoneVal) = 0
                            THEN CONSUMED ELSE OPEN]

save(self) ==
    IF ~is_suspended(self)
    THEN [self EXCEPT !.status = IF get_max_applications(self, NoneVal) = 0
                                 THEN CONSUMED ELSE OPEN]
    ELSE self

suspend(self) == save([self EXCEPT !.status = SUSPENDED])

unsuspend_keep(self) == save(self)

unsuspend(self) == save([self EXCEPT !.status = OPEN])

is_available_exclusive_end(self, user, test_date) ==
    IF is_suspended(self) THEN FALSE
    ELSE IF (IsSet(self.start_datetime) /\ self.start_datetime > test_date)
            \/ (IsSet(self.end_datetime) /\ test_date >= self.end_datetime)
         THEN FALSE
         ELSE get_max_applications(self, user) > 0

\* test_date is the instant tested: the caller's, or now() when it passes None
is_available(self, user, test_date) ==
    IF is_suspended(self) THEN FALSE
    ELSE IF (IsSet(self.start_datetime) /\ self.start_datetime > test_date)
            \/ (IsSet(self.end_datetime) /\ test_date > self.end_datetime)
         THEN FALSE
         ELSE get_max_applications(self, user) > 0

record_usage_per_freq(self, discount) ==
    save([self EXCEPT !.num_applications = @ + discount.freq,
                      !.total_discount = @ + discount.discount,
                      !.num_orders = @ + discount.freq])

record_usage(self, discount) ==
    save([self EXCEPT !.num_applications = @ + discount.freq,
                      !.total_discount = @ + discount.discount,
                      !.num_orders = @ + 1])

\* a freshly constructed offer: field defaults plus the caps and window the
\* administrator entered
NewOffer(mg, mu, mb, md, sd, ed, uf) ==
    [status |-> OPEN,
     max_global_applications |-> mg,
     max_user_applications |-> mu,
     max_basket_applications |-> mb,
     max_discount |-> md,
     total_discount |-> 0,
     num_applications |-> 0,
     num_orders |-> 0,
     start_datetime |-> sd,
     end_datetime |-> ed,
     user_frequency |-> uf]

\* the last operation performed on the offer: the offer as it was before the
\* call, the arguments and the return value
Op(name, before, user, date, freq, discount, ret, avail) ==
    [name |-> name, before |-> before, user |-> user, date |-> date,
     freq |-> freq, discount |-> discount, ret |-> ret, avail |-> avail]

NoOp(self) == Op("init", self, NoneVal, NoneVal, 0, 0, NoneVal, FALSE)

\* ------------------------------------------------------------ result types

\* ApplicationResult.BASKET, SHIPPING, POST_ORDER
BASKET == 0
SHIPPING == 1
POST_ORDER == 2

BasketDiscount(amount) ==
    [affects |-> BASKET, discount |-> amount,
     is_successful |-> amount > 0, is_final |-> FALSE]

ZERO_DISCOUNT == BasketDiscount(0)

\* a shipping result that lets the offer be applied again
SHIPPING_DISCOUNT_not_final ==
    [affects |-> SHIPPING, discount |-> 0,
     is_successful |-> TRUE, is_final |-> FALSE]

SHIPPING_DISCOUNT ==
    [affects |-> SHIPPING, discount |-> 0,
     is_successful |-> TRUE, is_final |-> TRUE]

\* ------------------------------------------------------------------- Range

\* Category.is_descendant_of over the category tree: category 2 is a child
\* of category 1
is_descendant_of(category, ancestor) == category = 2 /\ ancestor = 1

\* settings.OSCAR_OFFER_BLACKLIST_PRODUCT and
\* settings.OSCAR_OFFER_BLACKLIST_PRODUCT(product): the verdict of the
\* deployment's hook on the product, false when no hook is configured
Blacklisted(product) == product.blacklisted

\* an id list the Range instance has not read yet (None), and one it has read
Unloaded == [loaded |-> FALSE, ids |-> {}]
Loaded(ids) == [loaded |-> TRUE, ids |-> ids]

\* a Range row with its related rows (excluded_products, included_products,
\* classes, included_categories hold ids) and the instance's cached id lists;
\* proxy_products is what the custom class named by proxy_class contains
Range(id, proxy_class, proxy_products, includes_all_products, excluded_products, included_products, classes, included_categories) ==
    [id |-> id, proxy_class |-> proxy_class,
     proxy_products |-> proxy_products,
     includes_all_products |-> includes_all_products,
     excluded_products |-> excluded_products,
     included_products |-> included_products,
     classes |-> classes,
     included_categories |-> included_categories,
     __included_product_ids |-> Unloaded,
     __excluded_product_ids |-> Unloaded,
     __class_ids |-> Unloaded]

_included_product_ids(self) ==
    IF self.__included_product_ids.loaded
    THEN self.__included_product_ids.ids
    ELSE self.included_products

_excluded_product_ids_empty(self) == {}

_excluded_product_ids(self) ==
    IF ~IsSet(self.id) THEN {}
    ELSE IF self.__excluded_product_ids.loaded
         THEN self.__excluded_product_ids.ids
         ELSE self.excluded_products

_class_ids(self) ==
    IF self.__class_ids.loaded THEN self.__class_ids.ids ELSE self.classes

\* load_proxy(self.proxy_class)().contains_product(product)
proxy_contains_product(self, product) == product.id \in self.proxy_products

\* the value Range.contains_product returns
contains_product(self, product) ==
    IF Blacklisted(product) THEN FALSE
    ELSE IF IsSet(self.proxy_class) THEN proxy_contains_product(self, product)
    ELSE IF product.id \in _excluded_product_ids(self) THEN FALSE
    ELSE IF self.includes_all_products THEN TRUE
    ELSE IF product.product_class_id \in _class_ids(self) THEN TRUE
    ELSE IF product.id \in _included_product_ids(self) THEN TRUE
    ELSE \E category \in product.categories :
            \E test_category \in self.included_categories :
                category = test_category
                  \/ is_descendant_of(category, test_category)

\* the Range instance as Range.contains_product leaves it: the id lists the
\* call got to are now cached on the instance
after_contains_product(self, product) ==
    IF Blacklisted(product) \/ IsSet(self.proxy_class) THEN self
    ELSE
      LET excluded == [self EXCEPT !.__excluded_product_ids =
                         IF IsSet(self.id) /\ ~@.loaded
                         THEN Loaded(self.excluded_products) ELSE @]
          classes == [excluded EXCEPT !.__class_ids =
                         IF ~@.loaded THEN Loaded(self.classes) ELSE @]
          included == [classes EXCEPT !.__included_product_ids =
                         IF ~@.loaded THEN Loaded(self.included_products)
                         ELSE @]
      IN  IF product.id \in _excluded_product_ids(self)
             \/ self.includes_all_products
          THEN excluded
          ELSE IF product.product_class_id \in _class_ids(self)
               THEN classes
               ELSE included

\* Range.add_product: RangeProduct.objects.get_or_create(range, product)
add_product(self, product) ==
    [self EXCEPT !.included_products = @ \cup {product.id}]

\* Range.remove_product: RangeProduct.objects.filter(...).delete()
remove_product(self, product) ==
    [self EXCEPT !.included_products = @ \ {product.id}]

\* ---------------------------------------------------------- basket lines

\* a line of the SetOfLines: the units already given a benefit and the
\* discount accumulated on the line are tracked per pass
quantity_without_discount(line) == line.quantity - line.affected_quantity

line_discount_hook(line, discount_value, affected_quantity) ==
    [line EXCEPT !.discount_value = @ + discount_value,
                 !.affected_quantity = @ + affected_quantity]

unit_price(self, line) == line.unit_effective_price

apply_discount_marks_no_unit(line, discount, quantity) ==
    line_discount_hook(line, discount, 0)

apply_discount(line, discount, quantity) ==
    line_discount_hook(line, discount, quantity)

\* the positions 1..Len(keys) in ascending key order, equal keys keeping
\* their original order: Python's sorted(), which is stable
StableOrder(keys) ==
    LET n == Len(keys)
        rank(i) == 1 + Cardinality({j \in 1..n :
                          keys[j] < keys[i] \/ (keys[j] = keys[i] /\ j < i)})
    IN  [p \in 1..n |-> CHOOSE i \in 1..n : rank(i) = p]

\* the members of S, a set of positions in 1..n, in ascending order
SelectIdx(n, S) ==
    LET F[k \in 0..n] ==
            IF k = 0 THEN <<>>
            ELSE IF k \in S THEN Append(F[k - 1], k) ELSE F[k - 1]
    IN  F[n]

\* --------------------------------------------------------------- Condition

\* Condition.proxy(): NoneCondition for the type "None", the base Condition
\* (never satisfied) for every other type
is_satisfied(self, the_offer, the_lines) == self.type = "None"

\* ----------------------------------------------------------------- Benefit

BenefitTypes ==
    {"Percentage", "Shipping absolute", "Shipping fixed price",
     "Shipping percentage"}

\* rounding to the nearest cent above
round_up(amount) == (amount + 99) \div 100

\* the amount is counted in hundredths of a cent; quantize(D('.01'), ROUND_DOWN)
\* truncates it to whole cents
round(amount) ==
    IF amount >= 0 THEN amount \div 100 ELSE -((-amount) \div 100)

_effective_max_affected_items_unlimited(self) == NoItemLimit

_effective_max_affected_items(self) ==
    IF Truthy(self.max_affected_items) THEN self.max_affected_items
    ELSE NoItemLimit

can_apply_benefit_any_line(self, line) == TRUE

can_apply_benefit(self, line) ==
    line.stockrecord /\ line.product.is_discountable

\* the indexes of the lines that can be discounted, cheapest first
get_applicable_lines(self, the_offer, the_lines) ==
    LET ok(i) ==
            /\ contains_product(self.range, the_lines[i].product)
            /\ can_apply_benefit(self, the_lines[i])
            /\ unit_price(the_offer, the_lines[i]) # 0
            /\ quantity_without_discount(the_lines[i]) # 0
        sel == SelectIdx(Len(the_lines),
                         {i \in 1..Len(the_lines) : ok(i)})
        keys == [k \in 1..Len(sel) |-> unit_price(the_offer, the_lines[sel[k]])]
        order == StableOrder(keys)
    IN  [k \in 1..Len(sel) |-> sel[order[k]]]

Min(a, b) == IF a <= b THEN a ELSE b

quantity_affected_whole_line(line, max_affected_items, affected_items) ==
    Min(line.quantity, max_affected_items - affected_items)

quantity_affected(line, max_affected_items, affected_items) ==
    Min(quantity_without_discount(line), max_affected_items - affected_items)

clamp_nothing(line_discount, discount_amount_available) == line_discount

\* if discount_amount_available is not None:
\*     line_discount = min(line_discount, discount_amount_available)
clamp_to_available(line_discount, discount_amount_available) ==
    IF discount_amount_available # NoneVal
    THEN Min(line_discount, discount_amount_available)
    ELSE line_discount

\* the condition's items consumed whatever the discount is
consume_items_called_always(discount) == TRUE

\* if discount > 0: condition.consume_items(offer, basket, affected_lines)
consume_items_called(discount) == discount > 0

\* PercentageDiscountBenefit.apply: the for loop over the line tuples, then
\* the consumption of the condition's items and the result
PercentageApply(self, the_lines, condition, the_offer, discount_percent, max_total_discount) ==
    LET percent == IF discount_percent = NoneVal THEN self.value
                   ELSE discount_percent
        tuples == get_applicable_lines(self, the_offer, the_lines)
        max_affected_items == _effective_max_affected_items(self)
        start == [lines |-> the_lines, discount |-> 0, affected_items |-> 0,
                  available |-> max_total_discount, affected_lines |-> <<>>,
                  stopped |-> FALSE]
        body(st, i) ==
            IF st.stopped THEN st
            ELSE IF st.affected_items >= max_affected_items
                    \/ st.available = 0
            THEN [st EXCEPT !.stopped = TRUE]
            ELSE
              LET line == st.lines[i]
                  price == unit_price(the_offer, line)
                  qty == quantity_affected(line, max_affected_items,
                                           st.affected_items)
                  line_discount ==
                      clamp_to_available(round(percent * price * qty),
                                         st.available)
              IN  [lines |-> [st.lines EXCEPT
                                ![i] = apply_discount(line, line_discount, qty)],
                   discount |-> st.discount + line_discount,
                   affected_items |-> st.affected_items + qty,
                   available |-> IF st.available # NoneVal
                                 THEN st.available - line_discount
                                 ELSE NoneVal,
                   affected_lines |-> Append(st.affected_lines,
                                             <<i, line_discount, qty>>),
                   stopped |-> FALSE]
        loop[k \in 0..Len(tuples)] ==
            IF k = 0 THEN start ELSE body(loop[k - 1], tuples[k])
        end == loop[Len(tuples)]
    IN  [lines |-> end.lines,
         result |-> BasketDiscount(end.discount),
         consumed |-> consume_items_called(end.discount),
         affected_lines |-> end.affected_lines,
         raised |-> FALSE]

\* ShippingBenefit.apply
ShippingApply(self, the_lines, condition, the_offer) ==
    [lines |-> the_lines, result |-> SHIPPING_DISCOUNT, consumed |-> TRUE,
     affected_lines |-> <<>>, raised |-> FALSE]

\* Decimal.quantize(D('0.01')) under the default context, ROUND_HALF_EVEN;
\* the amount is counted in hundredths of a cent
quantize_half_even(amount) ==
    LET q == amount \div 100
        r == amount % 100
    IN  IF r > 50 \/ (r = 50 /\ q % 2 = 1) THEN q + 1 ELSE q

ShippingAbsoluteDiscountBenefit_shipping_discount(self, charge) ==
    Min(charge, self.value)

\* a fixed-price discount that takes the whole difference, below zero too
ShippingFixedPriceBenefit_unclamped(self, charge) == charge - self.value

ShippingFixedPriceBenefit_shipping_discount(self, charge) ==
    IF charge < self.value THEN 0 ELSE charge - self.value

ShippingPercentageDiscountBenefit_shipping_discount(self, charge) ==
    quantize_half_even(charge * self.value)

\* ConditionalOffer.shipping_discount: benefit.proxy().shipping_discount(charge)
shipping_discount(self, charge) ==
    IF self.type = "Shipping absolute"
    THEN ShippingAbsoluteDiscountBenefit_shipping_discount(self, charge)
    ELSE IF self.type = "Shipping fixed price"
    THEN ShippingFixedPriceBenefit_shipping_discount(self, charge)
    ELSE IF self.type = "Shipping percentage"
    THEN ShippingPercentageDiscountBenefit_shipping_discount(self, charge)
    ELSE 0

\* Benefit.proxy() followed by the proxy's apply(); an unrecognised type
\* raises RuntimeError
BenefitApply(self, the_lines, condition, the_offer) ==
    IF self.type = "Percentage"
    THEN PercentageApply(self, the_lines, condition, the_offer, NoneVal,
                         NoneVal)
    ELSE IF self.type \in BenefitTypes
    THEN ShippingApply(self, the_lines, condition, the_offer)
    ELSE [lines |-> the_lines, result |-> ZERO_DISCOUNT, consumed |-> FALSE,
          affected_lines |-> <<>>, raised |-> TRUE]

NotInvoked(the_lines) ==
    [lines |-> the_lines, result |-> ZERO_DISCOUNT, consumed |-> FALSE,
     affected_lines |-> <<>>, raised |-> FALSE, invoked |-> FALSE]

Invoked(outcome) ==
    [lines |-> outcome.lines, result |-> outcome.result,
     consumed |-> outcome.consumed, affected_lines |-> outcome.affected_lines,
     raised |-> outcome.raised, invoked |-> TRUE]

is_condition_satisfied(self, the_lines) ==
    is_satisfied(self.condition, self, the_lines)

apply_benefit_unconditional(self, the_lines) ==
    Invoked(BenefitApply(self.benefit, the_lines, self.condition, self))

apply_benefit(self, the_lines) ==
    IF ~is_condition_satisfied(self, the_lines)
    THEN NotInvoked(the_lines)
    ELSE Invoked(BenefitApply(self.benefit, the_lines, self.condition, self))

\* ------------------------------------------------------------- Applicator

NoAttempt ==
    [idx |-> 0, num_applications |-> 0, offer |-> NoneVal,
     benefit |-> NoneVal, discount_percent |-> NoneVal,
     max_total_discount |-> NoneVal,
     before_lines |-> <<>>, satisfied |-> FALSE,
     invoked |-> FALSE, result |-> ZERO_DISCOUNT, consumed |-> FALSE,
     affected_lines |-> <<>>, attempted |-> {}]

\* no Range instance is under test
NoRange == Range(NoneVal, NoneVal, {}, TRUE, {}, {}, {}, {})

\* the four getters of get_offers, each returning nothing
NoSources == [session |-> <<>>, basket |-> <<>>, user |-> <<>>, site |-> <<>>]

\* no database is read
NoStore == [now |-> 0, basket_id |-> NoneVal, vouchers |-> <<>>, offers |-> <<>>]

\* no checkout is running
NoCheckouts == <<>>

\* no pass is running
PassIdle ==
    /\ pc = "idle"
    /\ owner = NoneVal
    /\ sources = NoSources
    /\ offers = <<>>
    /\ lines = <<>>
    /\ idx = 0
    /\ tries = 0
    /\ applications = <<>>
    /\ last = NoAttempt
    /\ basket = <<>>
    /\ settled = <<>>
    /\ rng = NoRange
    /\ stored = NoStore
    /\ checkout = NoCheckouts

\* -------------------------------------------- offer lifecycle (SpecOffer)

\* save() reads the caps with no user, so the per-user cap is only unset or set
InitOffer ==
    /\ \E mg \in CapValues, mu \in {NoneVal, MaxCap}, mb \in CapValues,
          md \in CapValues,
          sd \in WindowBounds, ed \in WindowBounds :
          offer = save(NewOffer(mg, mu, mb, md, sd, ed, NoneVal))
    /\ op = NoOp(offer)
    /\ PassIdle

Save ==
    /\ offer' = save(offer)
    /\ op' = Op("save", offer, NoneVal, NoneVal, 0, 0, NoneVal, FALSE)
    /\ UNCHANGED passvars

Suspend ==
    /\ offer' = suspend(offer)
    /\ op' = Op("suspend", offer, NoneVal, NoneVal, 0, 0, NoneVal, FALSE)
    /\ UNCHANGED passvars

Unsuspend ==
    /\ offer' = unsuspend(offer)
    /\ op' = Op("unsuspend", offer, NoneVal, NoneVal, 0, 0, NoneVal, FALSE)
    /\ UNCHANGED passvars

RecordUsage ==
    /\ offer.num_orders < MaxOrders
    /\ \E freq \in 0..MaxFreq, amount \in 0..MaxAmount :
          /\ offer' = record_usage(offer, [freq |-> freq, discount |-> amount])
          /\ op' = Op("record_usage", offer, NoneVal, NoneVal, freq,
                      amount, NoneVal, FALSE)
    /\ UNCHANGED passvars

NextOffer == Save \/ Suspend \/ Unsuspend \/ RecordUsage

SpecOffer == InitOffer /\ [][NextOffer]_vars

\* ------------------------------------------ the application pass (Spec)

\* the range of every benefit of the pass: all products but product 3
AllButThree == Range(1, NoneVal, {}, TRUE, {3}, {}, {}, {})

Product(id, is_discountable) ==
    [id |-> id, is_discountable |-> is_discountable, product_class_id |-> 1,
     categories |-> {2}, blacklisted |-> FALSE]

Line(product, stockrecord, price, quantity) ==
    [product |-> product, stockrecord |-> stockrecord,
     unit_effective_price |-> price, quantity |-> quantity,
     affected_quantity |-> 0, discount_value |-> 0]

\* the first line of a basket: a discountable line at 12.00 or 16.00, a line
\* whose 20% rounds down to nothing, and the lines no benefit may touch
FirstLines ==
    {Line(Product(1, TRUE), TRUE, price, q) :
        price \in {3, 1200, 1600}, q \in 1..MaxQty}
    \cup {Line(Product(1, TRUE), TRUE, 0, 1),
          Line(Product(2, FALSE), TRUE, 1200, 1),
          Line(Product(3, TRUE), TRUE, 1200, 1),
          Line(Product(1, TRUE), FALSE, 1200, 1)}

\* the second line, when there is one: a discountable line at 14.00
SecondLines == {Line(Product(1, TRUE), TRUE, 1400, q) : q \in 1..MaxQty}

Baskets ==
    {<<l1>> : l1 \in FirstLines}
    \cup {<<l1, l2>> : l1 \in FirstLines, l2 \in SecondLines}

Caps(mg, mu, mb, md, na, td, uf) ==
    [max_global_applications |-> mg, max_user_applications |-> mu,
     max_basket_applications |-> mb, max_discount |-> md,
     num_applications |-> na, total_discount |-> td, user_frequency |-> uf]

NoCaps == Caps(NoneVal, NoneVal, NoneVal, NoneVal, 0, 0, NoneVal)

\* no cap; a basket cap; a global cap with one application left; a user cap
\* with one application left; a discount ceiling already reached
CapProfiles ==
    {NoCaps}
    \cup {Caps(NoneVal, NoneVal, c, NoneVal, 0, 0, NoneVal) : c \in 1..MaxCap}
    \cup {Caps(MaxCap, NoneVal, NoneVal, NoneVal, MaxCap - 1, 0, NoneVal)}
    \cup {Caps(NoneVal, MaxCap, NoneVal, NoneVal, 0, 0, MaxCap - 1)}
    \cup {Caps(NoneVal, NoneVal, NoneVal, 1, 0, 1, NoneVal)}

BenefitOf(type, value, max_affected_items) ==
    [type |-> type, value |-> value,
     max_affected_items |-> max_affected_items, range |-> AllButThree]

\* percentage benefits, a shipping benefit, and a type Benefit.proxy() does
\* not know
Benefits ==
    {BenefitOf("Percentage", v, m) : v \in {0, 20}, m \in {NoneVal, 1}}
    \cup {BenefitOf("Shipping absolute", 500, NoneVal),
          BenefitOf("Multibuy", NoneVal, NoneVal)}

PlainBenefits == {BenefitOf("Percentage", 20, m) : m \in {NoneVal, 1}}

ConditionOf(type) == [type |-> type, value |-> NoneVal, range |-> AllButThree]

\* an offer as the offer provider loads it: Open, inside its window
PassOffer(id, offer_type, priority, condition, benefit, caps) ==
    [id |-> id, offer_type |-> offer_type, priority |-> priority,
     status |-> OPEN, condition |-> condition, benefit |-> benefit,
     max_global_applications |-> caps.max_global_applications,
     max_user_applications |-> caps.max_user_applications,
     max_basket_applications |-> caps.max_basket_applications,
     max_discount |-> caps.max_discount,
     total_discount |-> caps.total_discount,
     num_applications |-> caps.num_applications,
     num_orders |-> 0,
     start_datetime |-> NoneVal, end_datetime |-> NoneVal,
     user_frequency |-> caps.user_frequency]

\* the site offer of the pass
SiteOffers ==
    {PassOffer(1, "Site", priority, ConditionOf(c), b, caps) :
        priority \in {1, 2}, c \in {"None", "Count"}, b \in Benefits,
        caps \in CapProfiles}

\* the voucher offer of the pass, when the basket carries a voucher
VoucherOffers ==
    {PassOffer(2, "Voucher", 1, ConditionOf("None"), b, NoCaps) :
        b \in PlainBenefits}

\* what the getters of the base Applicator return: get_session_offers and
\* get_user_offers nothing, get_basket_offers the offer of the basket's voucher
\* when there is one, get_site_offers the site offer
PassSources ==
    {[NoSources EXCEPT !.site = <<s>>] : s \in SiteOffers}
    \cup {[NoSources EXCEPT !.basket = <<v>>, !.site = <<s>>] :
             v \in VoucherOffers, s \in SiteOffers}

\* the lines of a basket no pass has written a discount to
Undiscounted(the_lines) ==
    [i \in 1..Len(the_lines) |->
        [discount |-> 0, affected_quantity |-> 0, writes |-> 0]]

Init ==
    /\ offer = NewOffer(NoneVal, NoneVal, NoneVal, NoneVal, NoneVal, NoneVal,
                        NoneVal)
    /\ op = NoOp(offer)
    /\ pc = "start"
    /\ owner \in Users
    /\ sources \in PassSources
    /\ offers = <<>>
    /\ lines \in Baskets
    /\ idx = 0
    /\ tries = 0
    /\ applications = <<>>
    /\ last = NoAttempt
    /\ basket = Undiscounted(lines)
    /\ settled = <<>>
    /\ rng = NoRange
    /\ stored = NoStore
    /\ checkout = NoCheckouts

\* sort_by_priority written as an ascending sort that is then reversed
sort_ascending_reversed(chain) ==
    LET order == StableOrder([i \in 1..Len(chain) |-> chain[i].priority])
        n == Len(chain)
    IN  [k \in 1..n |-> chain[order[n + 1 - k]]]

\* sorted(chain(...), key=lambda o: o.priority, reverse=True)
sort_by_priority(chain) ==
    LET order == StableOrder([i \in 1..Len(chain) |-> 0 - chain[i].priority])
    IN  [k \in 1..Len(chain) |-> chain[order[k]]]

\* chain(session_offers, basket_offers, user_offers, site_offers)
Chain(src) == src.session \o src.basket \o src.user \o src.site

get_offers(src) == sort_by_priority(Chain(src))

\* the OfferApplications of the pass before, used again
OfferApplications_reused == applications

\* results.OfferApplications(): a new, empty list of applications
OfferApplications == <<>>

\* SetOfLines.from_basket: the basket's lines with the counters of the pass
\* (units given a benefit, discount accumulated) created fresh
from_basket(the_lines) ==
    [i \in 1..Len(the_lines) |->
        [the_lines[i] EXCEPT !.affected_quantity = 0, !.discount_value = 0]]

\* Applicator.apply up to the for loop of apply_offers: get_offers, then
\* SetOfLines.from_basket, then a new OfferApplications
GetOffers ==
    /\ pc = "start"
    /\ offers' = get_offers(sources)
    /\ lines' = from_basket(lines)
    /\ applications' = OfferApplications
    /\ pc' = "apply"
    /\ idx' = 1
    /\ tries' = 0
    /\ last' = NoAttempt
    /\ UNCHANGED <<offervars, rng, stored, checkout, owner, sources, basket, settled>>

may_apply_once_more(self, num_applications, the_user) ==
    num_applications <= get_max_applications(self, the_user)

\* the while condition of apply_offers
may_apply(self, num_applications, the_user) ==
    num_applications < get_max_applications(self, the_user)

\* one iteration of the while loop of apply_offers
ApplyOffer ==
    /\ pc = "apply"
    /\ idx <= Len(offers)
    /\ may_apply(offers[idx], tries, owner)
    /\ LET self == offers[idx]
           outcome == apply_benefit(self, lines)
           result == outcome.result
       IN  /\ last' = [idx |-> idx, num_applications |-> tries, offer |-> self,
                       benefit |-> self.benefit, discount_percent |-> NoneVal,
                       max_total_discount |-> NoneVal,
                       before_lines |-> lines,
                       satisfied |-> is_condition_satisfied(self, lines),
                       invoked |-> outcome.invoked, result |-> result,
                       consumed |-> outcome.consumed,
                       affected_lines |-> outcome.affected_lines,
                       attempted |-> last.attempted \cup {idx}]
           /\ lines' = outcome.lines
           /\ IF outcome.raised
              THEN /\ pc' = "raised"
                   /\ UNCHANGED <<idx, tries, applications>>
              ELSE /\ pc' = pc
                   /\ applications' =
                         IF result.is_successful
                         THEN Append(applications,
                                     [offer |-> idx, result |-> result])
                         ELSE applications
                   /\ IF ~result.is_successful \/ result.is_final
                      THEN idx' = idx + 1 /\ tries' = 0
                      ELSE idx' = idx /\ tries' = tries + 1
    /\ UNCHANGED <<offervars, rng, stored, checkout, owner, sources, offers, basket, settled>>

\* the while condition of apply_offers fails: on to the next offer
NextInList ==
    /\ pc = "apply"
    /\ idx <= Len(offers)
    /\ ~may_apply(offers[idx], tries, owner)
    /\ idx' = idx + 1
    /\ tries' = 0
    /\ UNCHANGED <<offervars, rng, stored, checkout, pc, owner, sources, offers, lines, applications,
                   last, basket, settled>>

\* a basket line's discount(): the write of apply_offers_to_basket
basket_line_discount(line, discount_value, affected_quantity) ==
    [discount |-> line.discount + discount_value,
     affected_quantity |-> line.affected_quantity + affected_quantity,
     writes |-> line.writes + 1]

\* what one pass hands to the basket: basket.offer_applications and, per
\* line, the arguments of the line's discount()
Settlement(the_applications, the_lines) ==
    [applications |-> the_applications,
     discounts |-> [i \in 1..Len(the_lines) |->
                      <<the_lines[i].discount_value,
                        the_lines[i].affected_quantity>>]]

\* a settlement that writes to the discounted lines only
discount_discounted_lines(basket_lines, the_lines) ==
    [i \in 1..Len(the_lines) |->
        IF the_lines[i].discount_value > 0
        THEN basket_line_discount(basket_lines[i], the_lines[i].discount_value,
                                  the_lines[i].affected_quantity)
        ELSE basket_lines[i]]

\* for line in set_of_lines: basket_lines_by_ref[line.reference].discount(
\*     line.get_discount_value(), line.quantity_with_benefits(), incl_tax=True)
discount_basket_lines(basket_lines, the_lines) ==
    [i \in 1..Len(the_lines) |->
        basket_line_discount(basket_lines[i], the_lines[i].discount_value,
                             the_lines[i].affected_quantity)]

\* Applicator.apply_offers_to_basket, after apply_offers has returned
Settle ==
    /\ pc = "apply"
    /\ idx > Len(offers)
    /\ basket' = discount_basket_lines(basket, lines)
    /\ settled' = Append(settled, Settlement(applications, lines))
    /\ pc' = "done"
    /\ UNCHANGED <<offervars, rng, stored, checkout, owner, sources, offers, lines, idx, tries,
                   applications, last>>

\* Applicator.apply is called again with the same offers and the same basket
\* snapshot: the basket's lines as they were before the pass wrote to them
ApplyAgain ==
    /\ pc = "done"
    /\ Len(settled) < MaxRuns
    /\ pc' = "start"
    /\ basket' = Undiscounted(lines)
    /\ UNCHANGED <<offervars, rng, stored, checkout, owner, sources, offers, lines, idx, tries,
                   applications, last, settled>>

Next == GetOffers \/ ApplyOffer \/ NextInList \/ Settle \/ ApplyAgain

Spec == Init /\ [][Next]_vars

\* ------------------------------------------ offer gathering (SpecGather)

\* the priorities of the gathered offers
Priorities == {1, 2}

\* the offer a getter returns at position pos of its result; rank numbers the
\* getters, so that every gathered offer has an id of its own
GatheredOffer(rank, offer_type, pos, priority) ==
    PassOffer(10 * rank + pos, offer_type, priority, ConditionOf("None"),
              BenefitOf("Percentage", 20, NoneVal), NoCaps)

\* the results one getter can return: up to MaxFetched offers of any priorities
Fetched(rank, offer_type) ==
    UNION {{[k \in 1..n |-> GatheredOffer(rank, offer_type, k, f[k])] :
              f \in [1..n -> Priorities]} : n \in 0..MaxFetched}

\* an Applicator whose four getters all return offers (get_user_offers and
\* get_session_offers are the hooks a subclass overrides)
InitGather ==
    /\ offer = NewOffer(NoneVal, NoneVal, NoneVal, NoneVal, NoneVal, NoneVal,
                        NoneVal)
    /\ op = NoOp(offer)
    /\ pc = "start"
    /\ owner = 1
    /\ sources \in [session : Fetched(0, "Session"),
                     basket : Fetched(1, "Voucher"),
                     user : Fetched(2, "User"),
                     site : Fetched(3, "Site")]
    /\ offers = <<>>
    /\ lines = <<>>
    /\ idx = 0
    /\ tries = 0
    /\ applications = <<>>
    /\ last = NoAttempt
    /\ basket = <<>>
    /\ settled = <<>>
    /\ rng = NoRange
    /\ stored = NoStore
    /\ checkout = NoCheckouts

NextGather == GetOffers

SpecGather == InitGather /\ [][NextGather]_vars

\* ------------------------------------------ the offer getters (SpecProvider)

\* Applicator._get_available_offers: the stored offers the query returns.  A
\* comparison with a NULL datetime is not true in the query.
_get_available_offers(store) ==
    LET cutoff == store.now
        date_based(o) ==
            /\ IsSet(o.start_datetime) /\ o.start_datetime <= cutoff
            /\ ((IsSet(o.end_datetime) /\ o.end_datetime >= cutoff)
                 \/ o.end_datetime = NoneVal)
        nondate_based(o) ==
            o.start_datetime = NoneVal /\ o.end_datetime = NoneVal
        selected(o) ==
            (date_based(o) \/ nondate_based(o)) /\ o.status = OPEN
    IN  SelectSeq(store.offers, selected)

get_site_offers(store) ==
    LET site(o) == o.offer_type = "Site"
    IN  SelectSeq(_get_available_offers(store), site)

\* the offers of the basket's vouchers that are active and available to the
\* user; nothing for an unsaved basket or an anonymous user
get_basket_offers(store, user) ==
    LET vouchers == store.vouchers
        F[k \in 0..Len(vouchers)] ==
            IF k = 0 THEN <<>>
            ELSE IF vouchers[k].is_active /\ vouchers[k].is_available_to_user
                 THEN F[k - 1] \o vouchers[k].offers
                 ELSE F[k - 1]
    IN  IF ~IsSet(store.basket_id) \/ ~IsSet(user) THEN <<>>
        ELSE F[Len(vouchers)]

get_user_offers(user) == <<>>

get_session_offers(request) == <<>>

\* a stored offer: its window, its usage counters, and the status its last
\* save() or suspend() left
StoredOffer(id, offer_type, priority, caps, suspended, sd, ed) ==
    LET row == [PassOffer(id, offer_type, priority, ConditionOf("None"),
                          BenefitOf("Percentage", 20, NoneVal), caps)
                  EXCEPT !.start_datetime = sd, !.end_datetime = ed]
    IN  IF suspended THEN suspend(row) ELSE save(row)

\* the usage of a stored offer: no cap, or a discount threshold reached
StoredCaps == {NoCaps, Caps(NoneVal, NoneVal, NoneVal, 1, 0, 1, NoneVal)}

StoredSiteOffers ==
    {StoredOffer(1, "Site", 1, caps, suspended, sd, ed) :
        caps \in StoredCaps, suspended \in BOOLEAN,
        sd \in WindowBounds, ed \in WindowBounds}

StoredVoucherOffers ==
    {StoredOffer(2, "Voucher", 2, caps, suspended, sd, ed) :
        caps \in StoredCaps, suspended \in BOOLEAN,
        sd \in WindowBounds, ed \in WindowBounds}

\* the database: the clock, the basket saved or not, the site offer and, when
\* the basket carries a voucher, the voucher with its offer
Stores ==
    {[now |-> t, basket_id |-> b, vouchers |-> <<>>, offers |-> <<s>>] :
        t \in Dates, b \in {NoneVal, 1}, s \in StoredSiteOffers}
    \cup {[now |-> t, basket_id |-> b,
           vouchers |-> <<[is_active |-> a[1], is_available_to_user |-> a[2],
                           offers |-> <<v>>]>>,
           offers |-> <<s, v>>] :
             t \in Dates, b \in {NoneVal, 1}, s \in StoredSiteOffers,
             v \in StoredVoucherOffers, a \in BOOLEAN \X BOOLEAN}

InitProvider ==
    /\ offer = NewOffer(NoneVal, NoneVal, NoneVal, NoneVal, NoneVal, NoneVal,
                        NoneVal)
    /\ op = NoOp(offer)
    /\ pc = "load"
    /\ owner \in Users
    /\ sources = NoSources
    /\ offers = <<>>
    /\ lines = <<Line(Product(1, TRUE), TRUE, 1200, MaxQty)>>
    /\ idx = 0
    /\ tries = 0
    /\ applications = <<>>
    /\ last = NoAttempt
    /\ basket = Undiscounted(lines)
    /\ settled = <<>>
    /\ rng = NoRange
    /\ stored \in Stores
    /\ checkout = NoCheckouts

\* the four getter calls of Applicator.get_offers
LoadOffers ==
    /\ pc = "load"
    /\ sources' = [session |-> get_session_offers(NoneVal),
                   basket |-> get_basket_offers(stored, owner),
                   user |-> get_user_offers(owner),
                   site |-> get_site_offers(stored)]
    /\ pc' = "start"
    /\ UNCHANGED <<offervars, rng, stored, checkout, owner, offers, lines, idx,
                   tries, applications, last, basket, settled>>

NextProvider == LoadOffers \/ GetOffers \/ ApplyOffer \/ NextInList \/ Settle

SpecProvider == InitProvider /\ [][NextProvider]_vars

\* ------------------------------------ concurrent checkouts (SpecCheckout)

\* the checkouts that run at the same time, each in a process of its own
Checkouts == {1, 2}

\* a checkout that has not loaded the offer yet
NewCheckout(row) == [pc |-> "start", local |-> row, max |-> 0]

\* an offer with a global cap that leaves one application, none, or two
InitCheckout ==
    /\ \E mg \in 1..MaxCap, na \in 0..MaxCap :
          /\ na <= mg
          /\ offer = save([NewOffer(mg, NoneVal, NoneVal, NoneVal, NoneVal,
                                    NoneVal, NoneVal)
                             EXCEPT !.num_applications = na])
    /\ op = NoOp(offer)
    /\ pc = "idle"
    /\ owner = NoneVal
    /\ sources = NoSources
    /\ offers = <<>>
    /\ lines = <<>>
    /\ idx = 0
    /\ tries = 0
    /\ applications = <<>>
    /\ last = NoAttempt
    /\ basket = <<>>
    /\ settled = <<>>
    /\ rng = NoRange
    /\ stored = NoStore
    /\ checkout = [p \in Checkouts |-> NewCheckout(offer)]

CheckoutFrame ==
    UNCHANGED <<op, pc, owner, sources, offers, lines, idx, tries,
                applications, last, basket, settled, rng, stored>>

\* the checkout's query loads the offer row into an instance of its own
CheckoutLoad ==
    /\ \E p \in Checkouts :
          /\ checkout[p].pc = "start"
          /\ checkout' = [checkout EXCEPT ![p].pc = "loaded",
                                          ![p].local = offer]
    /\ UNCHANGED offer
    /\ CheckoutFrame

\* apply_offers reads get_max_applications of the instance: the offer is
\* applied to the checkout's basket when an application is left
CheckoutApply ==
    /\ \E p \in Checkouts :
          /\ checkout[p].pc = "loaded"
          /\ LET n == get_max_applications(checkout[p].local, owner)
             IN  checkout' = [checkout EXCEPT
                                ![p].pc = IF n > 0 THEN "applied"
                                          ELSE "rejected",
                                ![p].max = n]
    /\ UNCHANGED offer
    /\ CheckoutFrame

\* the order is placed: record_usage on the instance the pass applied, or on
\* one the order placement fetched anew; its save() writes the instance's
\* fields to the row
CheckoutRecord ==
    /\ \E p \in Checkouts, amount \in 0..MaxAmount :
          /\ checkout[p].pc = "applied"
          /\ \E instance \in {checkout[p].local, offer} :
                offer' = record_usage(instance,
                                      [freq |-> 1, discount |-> amount])
          /\ checkout' = [checkout EXCEPT ![p].pc = "recorded",
                                          ![p].local = offer']
    /\ CheckoutFrame

NextCheckout == CheckoutLoad \/ CheckoutApply \/ CheckoutRecord

SpecCheckout == InitCheckout /\ [][NextCheckout]_vars

\* ------------------------- PercentageDiscountBenefit.apply (SpecBenefit)

\* a line some of whose units an earlier benefit of the pass has taken
Taken(line, units) == [line EXCEPT !.affected_quantity = units]

\* the SetOfLines the benefit is applied to: empty, or a basket of the pass
\* with any number of units of its first line already taken
CallBaskets ==
    {<<>>}
    \cup UNION {{[b EXCEPT ![1] = Taken(b[1], units)] :
                    units \in 0..b[1].quantity} : b \in Baskets}

\* the benefit: 20%, max_affected_items unset, 0, 1 or MaxQty
CallBenefits ==
    {BenefitOf("Percentage", 20, m) : m \in {NoneVal, 0, 1, MaxQty}}

\* the discount_percent argument: left out, or an overriding percentage
CallPercents == {NoneVal, 0, 30, 100, 150}

\* the max_total_discount argument: left out, or a ceiling in cents
CallCeilings == {NoneVal, 0, 300, 480, 500}

InitBenefit ==
    /\ offer = NewOffer(NoneVal, NoneVal, NoneVal, NoneVal, NoneVal, NoneVal,
                        NoneVal)
    /\ op = NoOp(offer)
    /\ pc = "benefit"
    /\ owner = NoneVal
    /\ sources = NoSources
    /\ offers = <<>>
    /\ lines \in CallBaskets
    /\ idx = 0
    /\ tries = 0
    /\ applications = <<>>
    /\ last = NoAttempt
    /\ basket = <<>>
    /\ settled = <<>>
    /\ rng = NoRange
    /\ stored = NoStore
    /\ checkout = NoCheckouts

\* benefit.apply(set_of_lines, condition, offer, discount_percent,
\* max_total_discount), called once on the SetOfLines
BenefitCall ==
    /\ pc = "benefit"
    /\ last.idx = 0
    /\ \E b \in CallBenefits, dp \in CallPercents, mtd \in CallCeilings :
          LET outcome == PercentageApply(b, lines, ConditionOf("None"),
                                         NoneVal, dp, mtd)
          IN  /\ last' = [idx |-> 1, num_applications |-> 0,
                          offer |-> NoneVal, benefit |-> b,
                          discount_percent |-> dp, max_total_discount |-> mtd,
                          before_lines |-> lines, satisfied |-> TRUE,
                          invoked |-> TRUE, result |-> outcome.result,
                          consumed |-> outcome.consumed,
                          affected_lines |-> outcome.affected_lines,
                          attempted |-> {1}]
              /\ lines' = outcome.lines
    /\ UNCHANGED <<offervars, rng, stored, checkout, pc, owner, sources, offers, idx, tries,
                   applications, basket, settled>>

NextBenefit == BenefitCall

SpecBenefit == InitBenefit /\ [][NextBenefit]_vars

\* ------------------------------------------ range membership (SpecRange)

\* the products tested: two ids, two product classes, in no category or in
\* category 2 (a child of category 1), blacklisted by the hook or not
RangeProducts ==
    [id : {1, 2}, is_discountable : {TRUE}, product_class_id : {1, 2},
     categories : {{}, {2}}, blacklisted : BOOLEAN]

\* the products an administrator adds to and removes from a range
ListedProducts ==
    {product \in RangeProducts :
        product.categories = {} /\ ~product.blacklisted}

\* a Range freshly loaded from the database: saved, with any related rows
\* and nothing cached; with a custom class or with the built-in logic
SavedRanges ==
    {Range(1, proxy[1], proxy[2], all, excluded, included, classes, categories) :
        proxy \in {<<NoneVal, {}>>, <<1, {}>>, <<1, {1}>>},
        all \in BOOLEAN, excluded \in {{}, {1}}, included \in {{}, {1}},
        classes \in {{}, {1}}, categories \in {{}, {1}, {2}}}

\* a Range constructed and not saved has no id and no related rows
UnsavedRanges == {Range(NoneVal, NoneVal, {}, TRUE, {}, {}, {}, {})}

\* the last call on the Range instance
RangeOp(name, before, product, ret) ==
    [name |-> name, before |-> before, product |-> product, ret |-> ret]

InitRange ==
    /\ offer = NewOffer(NoneVal, NoneVal, NoneVal, NoneVal, NoneVal, NoneVal,
                        NoneVal)
    /\ rng \in SavedRanges \cup UnsavedRanges
    /\ op = RangeOp("init", rng, NoneVal, FALSE)
    /\ pc = "idle"
    /\ owner = NoneVal
    /\ sources = NoSources
    /\ offers = <<>>
    /\ lines = <<>>
    /\ idx = 0
    /\ tries = 0
    /\ applications = <<>>
    /\ last = NoAttempt
    /\ basket = <<>>
    /\ settled = <<>>
    /\ stored = NoStore
    /\ checkout = NoCheckouts

RangeFrame ==
    UNCHANGED <<offer, pc, owner, sources, offers, lines, idx, tries,
                applications, last, basket, settled, stored, checkout>>

ContainsProduct ==
    /\ \E product \in RangeProducts :
          /\ op' = RangeOp("contains_product", rng, product,
                           contains_product(rng, product))
          /\ rng' = after_contains_product(rng, product)
    /\ RangeFrame

AddProduct ==
    /\ IsSet(rng.id)
    /\ \E product \in ListedProducts :
          /\ op' = RangeOp("add_product", rng, product, FALSE)
          /\ rng' = add_product(rng, product)
    /\ RangeFrame

RemoveProduct ==
    /\ IsSet(rng.id)
    /\ \E product \in ListedProducts :
          /\ op' = RangeOp("remove_product", rng, product, FALSE)
          /\ rng' = remove_product(rng, product)
    /\ RangeFrame

NextRange == ContainsProduct \/ AddProduct \/ RemoveProduct

SpecRange == InitRange /\ [][NextRange]_vars

\* ------------------------------------------ shipping discounts (SpecShipping)

ShippingTypes ==
    {"Shipping absolute", "Shipping fixed price", "Shipping percentage"}

\* the value field of the benefit: cents for the absolute and the fixed-price
\* benefit, whole percent for the percentage benefit
ShippingValues == {0, 1, 33, 50, 100, 150, 500, 10000}

\* the shipping charge in cents
ShippingCharges == {0, 1, 150, 250, 300, 800, 12000}

ShippingBenefits ==
    {BenefitOf(type, value, NoneVal) :
        type \in ShippingTypes, value \in ShippingValues}

\* the last call on the shipping benefit
ShippingOp(name, before, charge, ret) ==
    [name |-> name, before |-> before, charge |-> charge, ret |-> ret]

InitShipping ==
    /\ offer = NewOffer(NoneVal, NoneVal, NoneVal, NoneVal, NoneVal, NoneVal,
                        NoneVal)
    /\ \E b \in ShippingBenefits : op = ShippingOp("init", b, NoneVal, NoneVal)
    /\ PassIdle

ShippingDiscount ==
    /\ op.name = "init"
    /\ \E charge \in ShippingCharges :
          op' = ShippingOp("shipping_discount", op.before, charge,
                           shipping_discount(op.before, charge))
    /\ UNCHANGED <<offer, passvars>>

NextShipping == ShippingDiscount

SpecShipping == InitShipping /\ [][NextShipping]_vars

\* ------------------------------------- cap and availability queries (SpecCaps)

\* every stored offer: any caps, window, status and usage counters
InitCaps ==
    /\ \E mg \in CapValues, mu \in CapValues, mb \in CapValues,
          md \in CapValues,
          sd \in WindowBounds, ed \in WindowBounds,
          st \in {OPEN, SUSPENDED, CONSUMED},
          na \in 0..MaxCount, td \in 0..MaxCount,
          uf \in {NoneVal} \cup (0..MaxCount) :
          offer = [NewOffer(mg, mu, mb, md, sd, ed, uf)
                     EXCEPT !.status = st,
                            !.num_applications = na,
                            !.total_discount = td]
    /\ op = NoOp(offer)
    /\ PassIdle

GetMaxApplications ==
    /\ op.name = "init"
    /\ \E user \in Users :
          op' = Op("get_max_applications", offer, user, NoneVal, 0, 0,
                   get_max_applications(offer, user), FALSE)
    /\ UNCHANGED <<offer, passvars>>

IsAvailable ==
    /\ op.name = "init"
    /\ \E user \in Users, test_date \in Dates :
          op' = Op("is_available", offer, user, test_date, 0, 0,
                   NoneVal, is_available(offer, user, test_date))
    /\ UNCHANGED <<offer, passvars>>

NextCaps == GetMaxApplications \/ IsAvailable

SpecCaps == InitCaps /\ [][NextCaps]_vars

\* ------------------------------------------------------------------ claims

\* the number of results apply_offers has recorded for the offer at position i
NumRecorded(i) ==
    Cardinality({k \in 1..Len(applications) : applications[k].offer = i})

\* a line a percentage benefit of the pass may discount
Eligible(line) ==
    /\ contains_product(AllButThree, line.product)
    /\ line.stockrecord
    /\ line.product.is_discountable
    /\ line.unit_effective_price # 0

\* C1: in one pass, after any sequence of benefit applications, the quantity
\* of a line that benefits have marked as discounted never exceeds the line's
\* quantity; each application takes at most the line's undiscounted units and
\* only from lines that had an undiscounted unit left.
C1_NoDoubleDiscount ==
    /\ \A i \in 1..Len(lines) :
          /\ lines[i].affected_quantity >= 0
          /\ lines[i].affected_quantity <= lines[i].quantity
    /\ \A k \in 1..Len(last.affected_lines) :
          LET t == last.affected_lines[k]
              before == last.before_lines[t[1]]
          IN  /\ quantity_without_discount(before) > 0
              /\ t[3] >= 1
              /\ t[3] <= quantity_without_discount(before)

\* the positions in the list of the offers apply_benefit has been called on
\* in the pass
Attempted == last.attempted

\* C1 witness: two different offers have discounted units of the one line of
\* the basket, which is now discounted in full
C1_Witness ==
    /\ pc = "done"
    /\ Len(lines) = 1
    /\ lines[1].quantity >= 2
    /\ lines[1].affected_quantity = lines[1].quantity
    /\ Len(applications) = 2
    /\ applications[1].offer # applications[2].offer

C3_UnsatisfiedNoEffect ==
    (last.idx # 0 /\ ~last.satisfied) =>
        /\ last.result = ZERO_DISCOUNT
        /\ ~last.result.is_successful
        /\ last.result.affects = BASKET
        /\ ~last.invoked
        /\ ~last.consumed
        /\ lines = last.before_lines
        /\ offers[last.idx] = last.offer
        /\ NumRecorded(last.idx) = 0

\* C3 witness: the condition fails for an offer whose benefit would have
\* discounted the first line
C3_Witness ==
    /\ last.idx # 0
    /\ ~last.satisfied
    /\ last.offer.benefit.type = "Percentage"
    /\ last.offer.benefit.value = 20
    /\ Eligible(lines[1])
    /\ lines[1].unit_effective_price = 1200
    /\ lines[1].affected_quantity = 0

\* the offer with one usage counter raised by d
RaiseTotalDiscount(self, d) == [self EXCEPT !.total_discount = @ + d]
RaiseNumApplications(self, d) == [self EXCEPT !.num_applications = @ + d]
RaiseUserFrequency(self, d) ==
    [self EXCEPT !.user_frequency = get_num_user_applications(self, 1) + d]

\* C4: get_max_applications(user) is always between 0 and 10000, and raising
\* total_discount, num_applications or the user's past application count,
\* everything else fixed, never raises the value it returns.
C4_CapMonotone ==
    op.name = "get_max_applications" =>
        /\ op.ret >= 0
        /\ op.ret <= HardLimit
        /\ \A d \in 1..(MaxCount + 1) :
              /\ get_max_applications(RaiseTotalDiscount(offer, d), op.user)
                    <= op.ret
              /\ get_max_applications(RaiseNumApplications(offer, d), op.user)
                    <= op.ret
              /\ get_max_applications(RaiseUserFrequency(offer, d), op.user)
                    <= op.ret

\* C4 witness: a global cap that the counter has overrun, so the clamp at 0
\* is what keeps the value from going negative
C4_Witness ==
    /\ op.name = "get_max_applications"
    /\ offer.max_global_applications = 1
    /\ offer.num_applications = 2
    /\ op.ret = 0

\* whether a cap counts: as the claim reads "set" (not None, so 0 is a cap), or
\* only when it is set to a non-zero value
CapCounts(cap, zero_is_a_cap) ==
    IF zero_is_a_cap THEN cap # NoneVal ELSE cap # NoneVal /\ cap # 0

\* the limits the claim names
ClaimedLimits(self, user, z) ==
    {HardLimit}
    \cup (IF CapCounts(self.max_user_applications, z) /\ user # NoneVal
          THEN {Max(0, self.max_user_applications
                         - get_num_user_applications(self, user))}
          ELSE {})
    \cup (IF CapCounts(self.max_basket_applications, z)
          THEN {self.max_basket_applications} ELSE {})
    \cup (IF CapCounts(self.max_global_applications, z)
          THEN {Max(0, self.max_global_applications - self.num_applications)}
          ELSE {})

ClaimedMax(self, user, z) ==
    IF CapCounts(self.max_discount, z)
         /\ self.total_discount >= self.max_discount
    THEN 0
    ELSE CHOOSE m \in ClaimedLimits(self, user, z) :
            \A l \in ClaimedLimits(self, user, z) : m <= l

\* C5 as claimed: a cap counts as soon as it is set (not None), so a cap of 0
\* is a cap
C5_AsClaimed ==
    op.name = "get_max_applications" =>
        op.ret = ClaimedMax(offer, op.user, TRUE)

\* C5 amended: get_max_applications(user) returns 0 when max_discount is set
\* to a non-zero value and total_discount >= max_discount; otherwise the
\* minimum of 10000 and the limits of the caps that are set to a non-zero
\* value (a cap of 0 is treated like an unset cap).
C5_MaxApplications ==
    op.name = "get_max_applications" =>
        op.ret = ClaimedMax(offer, op.user, FALSE)

\* C5 witness: the user cap is the binding limit for a signed-in user
C5_Witness ==
    /\ op.name = "get_max_applications"
    /\ op.user = 1
    /\ offer.max_user_applications = 2
    /\ offer.user_frequency = 1
    /\ offer.max_basket_applications = 2
    /\ op.ret = 1

\* C9: is_available(user, test_date) is false for a Suspended offer, false
\* when test_date is before start_datetime or after end_datetime (a missing
\* bound does not restrict, both bounds are inclusive), and otherwise true
\* exactly when get_max_applications(user) > 0.
C9_IsAvailable ==
    op.name = "is_available" =>
        op.avail =
            (/\ offer.status # SUSPENDED
             /\ (offer.start_datetime = NoneVal
                   \/ op.date >= offer.start_datetime)
             /\ (offer.end_datetime = NoneVal
                   \/ op.date <= offer.end_datetime)
             /\ get_max_applications(offer, op.user) > 0)

\* C9 witness: an offer tested exactly on its end bound is available
C9_Witness ==
    /\ op.name = "is_available"
    /\ offer.end_datetime # NoneVal
    /\ op.date = offer.end_datetime
    /\ offer.start_datetime = op.date
    /\ op.avail

\* the fields of an offer that record_usage and save must leave alone
Configuration(self) ==
    <<self.max_global_applications, self.max_user_applications,
      self.max_basket_applications, self.max_discount,
      self.start_datetime, self.end_datetime, self.user_frequency>>

\* every operation of the lifecycle ends in save()
Saved == op.name \in {"save", "suspend", "unsuspend", "record_usage"}

\* C6 as claimed: after every save(), whatever the status before, the status
\* is Consumed exactly when get_max_applications() is 0
C6_AsClaimed ==
    Saved => (offer.status = CONSUMED
                <=> get_max_applications(offer, NoneVal) = 0)

\* C6 amended: after every save() of an offer that is not Suspended, the
\* stored status is Consumed if get_max_applications() with no user returns
\* 0 and Open otherwise; save() leaves a Suspended offer Suspended.
C6_SaveDerivesStatus ==
    Saved =>
        IF offer.status = SUSPENDED
        THEN op.name = "suspend" \/ op.before.status = SUSPENDED
        ELSE offer.status = (IF get_max_applications(offer, NoneVal) = 0
                             THEN CONSUMED ELSE OPEN)

\* C6 witness: a save() that turned an Open offer into a Consumed one
C6_Witness ==
    /\ op.name = "record_usage"
    /\ op.before.status = OPEN
    /\ offer.status = CONSUMED

\* C7: suspend() leaves the offer Suspended whatever its status was, and the
\* offer stays Suspended, is_available false for every user and time, across
\* every later save() and record_usage() until unsuspend() is called.
C7_SuspendedUntilUnsuspend ==
    (op.name = "suspend"
       \/ (op.name \in {"save", "record_usage"}
             /\ op.before.status = SUSPENDED))
    => /\ offer.status = SUSPENDED
       /\ \A user \in Users, test_date \in Dates :
             ~is_available(offer, user, test_date)

\* C7 witness: usage recorded on a Suspended offer exhausts its caps and the
\* offer is still Suspended
C7_Witness ==
    /\ op.name = "record_usage"
    /\ op.before.status = SUSPENDED
    /\ get_max_applications(op.before, NoneVal) > 0
    /\ get_max_applications(offer, NoneVal) = 0
    /\ offer.status = SUSPENDED

\* C8: unsuspend() on a Suspended offer stores Open when
\* get_max_applications() with no user is greater than 0 and Consumed when it
\* is 0; the offer is never left Suspended.
C8_UnsuspendRederives ==
    (op.name = "unsuspend" /\ op.before.status = SUSPENDED)
    => offer.status = (IF get_max_applications(offer, NoneVal) > 0
                       THEN OPEN ELSE CONSUMED)

\* C8 witness: an offer whose caps ran out while it was Suspended comes back
\* Consumed
C8_Witness ==
    /\ op.name = "unsuspend"
    /\ op.before.status = SUSPENDED
    /\ offer.status = CONSUMED

\* C10: record_usage(discount) adds discount['freq'] to num_applications,
\* discount['discount'] to total_discount and exactly 1 to num_orders, changes
\* no cap or window field, and re-derives the status through save().
C10_RecordUsage ==
    op.name = "record_usage" =>
        /\ offer.num_applications = op.before.num_applications + op.freq
        /\ offer.total_discount = op.before.total_discount + op.discount
        /\ offer.num_orders = op.before.num_orders + 1
        /\ Configuration(offer) = Configuration(op.before)
        /\ offer.status =
              (IF op.before.status = SUSPENDED THEN SUSPENDED
               ELSE IF get_max_applications(offer, NoneVal) = 0
                    THEN CONSUMED ELSE OPEN)

\* C10 witness: a second order whose applications and discount exhaust the
\* offer
C10_Witness ==
    /\ op.name = "record_usage"
    /\ op.freq = MaxFreq
    /\ op.discount > 0
    /\ offer.num_orders = 2
    /\ op.before.status = OPEN
    /\ offer.status = CONSUMED

\* C11 as claimed: total_discount never exceeds a max_discount that is set
C11_AsClaimed ==
    Truthy(offer.max_discount) => offer.total_discount <= offer.max_discount

\* C11 amended: max_discount is a threshold, not a ceiling.  record_usage
\* adds the order's discount whatever the total already is, so total_discount
\* can pass max_discount; once total_discount >= max_discount (set to a
\* non-zero value) get_max_applications is 0 for every user, the offer is
\* unavailable at every instant, and a saved offer is no longer Open.
C11_ThresholdStopsOffer ==
    (Truthy(offer.max_discount) /\ offer.total_discount >= offer.max_discount)
    => /\ \A user \in Users :
             /\ get_max_applications(offer, user) = 0
             /\ \A test_date \in Dates :
                   ~is_available(offer, user, test_date)
       /\ offer.status # OPEN

\* C11 witness: an order recorded on the offer has taken total_discount past
\* max_discount, and the offer is Consumed
C11_Witness ==
    /\ op.name = "record_usage"
    /\ op.discount > 0
    /\ Truthy(offer.max_discount)
    /\ offer.total_discount > offer.max_discount
    /\ offer.status = CONSUMED

\* the getter an offer of the list came from, numbered in the claimed order of
\* precedence: session, basket/voucher, user, site
SourceRank(o) ==
    IF \E k \in 1..Len(sources.session) : sources.session[k] = o THEN 0
    ELSE IF \E k \in 1..Len(sources.basket) : sources.basket[k] = o THEN 1
    ELSE IF \E k \in 1..Len(sources.user) : sources.user[k] = o THEN 2
    ELSE 3

SourceList(rank) ==
    IF rank = 0 THEN sources.session
    ELSE IF rank = 1 THEN sources.basket
    ELSE IF rank = 2 THEN sources.user
    ELSE sources.site

\* the position of the offer in the result of its getter
FetchIndex(o) ==
    CHOOSE k \in 1..Len(SourceList(SourceRank(o))) :
        SourceList(SourceRank(o))[k] = o

GatheredOffers ==
    {sources.session[k] : k \in 1..Len(sources.session)}
    \cup {sources.basket[k] : k \in 1..Len(sources.basket)}
    \cup {sources.user[k] : k \in 1..Len(sources.user)}
    \cup {sources.site[k] : k \in 1..Len(sources.site)}

\* C12: get_offers returns the offers of all four sources sorted by priority
\* descending; offers of equal priority keep the order session, then
\* basket/voucher, then user, then site, and within one source their fetch
\* order.
C12_GetOffersOrder ==
    pc = "apply" =>
        /\ Len(offers) = Len(sources.session) + Len(sources.basket)
                           + Len(sources.user) + Len(sources.site)
        /\ {offers[i] : i \in 1..Len(offers)} = GatheredOffers
        /\ \A i \in 1..Len(offers) : \A j \in (i + 1)..Len(offers) :
              /\ offers[i].priority >= offers[j].priority
              /\ offers[i].priority = offers[j].priority =>
                    \/ SourceRank(offers[i]) < SourceRank(offers[j])
                    \/ /\ SourceRank(offers[i]) = SourceRank(offers[j])
                       /\ FetchIndex(offers[i]) < FetchIndex(offers[j])

\* C12 witness: all four getters return offers; a priority-2 site offer is
\* moved ahead of the priority-1 session offer, and the priority-2 offers
\* stand in the order voucher, user, site, site
C12_Witness ==
    /\ pc = "apply"
    /\ Len(offers) = 5
    /\ Len(sources.site) = 2
    /\ offers[1].offer_type = "Voucher"
    /\ offers[2].offer_type = "User"
    /\ offers[3] = sources.site[1]
    /\ offers[4] = sources.site[2]
    /\ offers[5].offer_type = "Session"
    /\ offers[5].priority = 1
    /\ offers[4].priority = 2

EligibleBefore ==
    {i \in 1..Len(last.before_lines) : Eligible(last.before_lines[i])}

\* the first offer of the list is recorded with the percentage discount of
\* every unit of the only eligible line
FirstTookEveryUnit ==
    /\ Cardinality(EligibleBefore) = 1
    /\ offers[1].benefit.type = "Percentage"
    /\ Len(applications) >= 1
    /\ applications[1].offer = 1
    /\ \A i \in EligibleBefore :
          applications[1].result.discount =
              (offers[1].benefit.value
                 * last.before_lines[i].unit_effective_price
                 * last.before_lines[i].quantity) \div 100

\* C14: the offers are applied in descending priority; when the
\* higher-priority offer has discounted every unit of the only eligible line,
\* those units are not available to the lower-priority offer that targets
\* them: its application is unsuccessful, changes nothing and is not recorded.
C14_HigherPriorityTakesUnits ==
    /\ pc # "start" =>
          /\ \A i \in 1..Len(offers) : \A j \in (i + 1)..Len(offers) :
                offers[i].priority >= offers[j].priority
          /\ \A k \in 1..Len(applications) :
                \A l \in (k + 1)..Len(applications) :
                    applications[k].offer <= applications[l].offer
    /\ (/\ last.idx = 2
        /\ last.num_applications = 0
        /\ offers[1].priority > offers[2].priority
        /\ last.offer.benefit.type = "Percentage"
        /\ FirstTookEveryUnit)
       => /\ \A i \in EligibleBefore :
                quantity_without_discount(last.before_lines[i]) = 0
          /\ last.result = ZERO_DISCOUNT
          /\ ~last.result.is_successful
          /\ last.affected_lines = <<>>
          /\ lines = last.before_lines
          /\ NumRecorded(2) = 0

\* C14 witness: a priority-2 site offer has discounted both units of the one
\* line, and the priority-1 voucher offer, whose condition holds, has been
\* tried on it
C14_Witness ==
    /\ last.idx = 2
    /\ last.num_applications = 0
    /\ offers[1].priority = 2
    /\ offers[2].priority = 1
    /\ offers[2].offer_type = "Voucher"
    /\ NumRecorded(1) = 1
    /\ applications[1].result.discount = 480
    /\ Len(lines) = 1
    /\ lines[1].quantity = 2
    /\ lines[1].affected_quantity = 2
    /\ last.satisfied
    /\ last.invoked
    /\ ~last.result.is_successful

\* the percentage a call of PercentageDiscountBenefit.apply works with
PercentOf(call) ==
    IF call.discount_percent = NoneVal THEN call.benefit.value
    ELSE call.discount_percent

\* the call the claims on PercentageDiscountBenefit.apply are about
PercentageCalled ==
    last.idx # 0 /\ last.invoked /\ last.benefit.type = "Percentage"

UnitsTaken(affected_lines) ==
    LET F[k \in 0..Len(affected_lines)] ==
            IF k = 0 THEN 0 ELSE F[k - 1] + affected_lines[k][3]
    IN  F[Len(affected_lines)]

\* C16 as claimed: the cap is max_affected_items whenever it is set (not
\* None), so a cap of 0 lets no unit be discounted
C16_AsClaimed ==
    PercentageCalled =>
        UnitsTaken(last.affected_lines)
            <= (IF last.benefit.max_affected_items # NoneVal
                THEN last.benefit.max_affected_items ELSE 10000)

\* C16 amended: one PercentageDiscountBenefit.apply discounts at most
\* max_affected_items units when that is set to a non-zero value and at most
\* 10000 when it is unset or 0; it takes the units in ascending unit-price
\* order, a dearer line only after every cheaper eligible line is used up; with
\* max_affected_items = 1 and lines priced 12 and 14 exactly one unit of the
\* 12 line is discounted and every other unit stays undiscounted.
C16_MaxAffectedItems ==
    PercentageCalled =>
        /\ UnitsTaken(last.affected_lines)
              <= (IF Truthy(last.benefit.max_affected_items)
                  THEN last.benefit.max_affected_items ELSE 10000)
        /\ \A k \in 1..Len(last.affected_lines) :
              LET t == last.affected_lines[k]
                  price == last.before_lines[t[1]].unit_effective_price
              IN  /\ \A l \in (k + 1)..Len(last.affected_lines) :
                        price <= last.before_lines[last.affected_lines[l][1]]
                                     .unit_effective_price
                  /\ \A j \in 1..Len(last.before_lines) :
                        (/\ Eligible(last.before_lines[j])
                         /\ last.before_lines[j].unit_effective_price < price)
                        => lines[j].affected_quantity = lines[j].quantity
        /\ (/\ last.benefit.max_affected_items = 1
            /\ last.max_total_discount = NoneVal
            /\ Len(last.before_lines) = 2
            /\ \A i \in 1..2 : /\ Eligible(last.before_lines[i])
                                /\ last.before_lines[i].affected_quantity = 0
            /\ last.before_lines[1].unit_effective_price = 1200
            /\ last.before_lines[2].unit_effective_price = 1400)
           => /\ Len(last.affected_lines) = 1
              /\ last.affected_lines[1][1] = 1
              /\ last.affected_lines[1][3] = 1
              /\ lines[1].affected_quantity = 1
              /\ lines[2] = last.before_lines[2]

\* C16 witness: max_affected_items = 1 on lines priced 12 (two units) and 14:
\* one unit of the 12 line is discounted at 20%, three units are left
C16_Witness ==
    /\ PercentageCalled
    /\ pc = "benefit"
    /\ last.benefit.max_affected_items = 1
    /\ PercentOf(last) = 20
    /\ last.max_total_discount = NoneVal
    /\ Len(lines) = 2
    /\ lines[1].unit_effective_price = 1200
    /\ lines[1].quantity = 2
    /\ lines[1].affected_quantity = 1
    /\ lines[2].quantity = 2
    /\ lines[2].affected_quantity = 0
    /\ last.result.discount = 240

\* the discount one call has given on the first n lines it discounted
DiscountGiven(affected_lines, n) ==
    LET F[k \in 0..n] ==
            IF k = 0 THEN 0 ELSE F[k - 1] + affected_lines[k][2]
    IN  F[n]

\* C17: given a ceiling max_total_discount = M, the total discount
\* PercentageDiscountBenefit.apply returns is at most M, each line discount is
\* the smaller of the line's percentage discount and the ceiling still
\* remaining, and no line is discounted once the remaining ceiling is zero.
C17_CeilingRespected ==
    (PercentageCalled /\ last.max_total_discount # NoneVal) =>
        LET al == last.affected_lines
        IN  /\ last.result.discount <= last.max_total_discount
            /\ last.result.discount = DiscountGiven(al, Len(al))
            /\ \A k \in 1..Len(al) :
                  LET remaining == last.max_total_discount
                                     - DiscountGiven(al, k - 1)
                      price == last.before_lines[al[k][1]].unit_effective_price
                      uncapped == (PercentOf(last) * price * al[k][3]) \div 100
                  IN  /\ remaining > 0
                      /\ al[k][2] <= remaining
                      /\ al[k][2] = Min(uncapped, remaining)

\* C17 witness: a ceiling of 5.00 on lines worth 4.80 and more of discount:
\* the second line is clamped to the 0.20 that remain
C17_Witness ==
    /\ PercentageCalled
    /\ pc = "benefit"
    /\ last.max_total_discount = 500
    /\ Len(last.affected_lines) = 2
    /\ last.affected_lines[1][2] = 480
    /\ last.affected_lines[2][2] = 20
    /\ last.result.discount = 500
    /\ lines[2].discount_value = 20

\* C18: PercentageDiscountBenefit.apply never discounts a unit of a line whose
\* product is not discountable, is outside the benefit's range, has no stock
\* record or has a zero unit price; when the basket is empty or holds only
\* such lines the result is unsuccessful and no unit is marked as discounted.
C18_OnlyApplicableLines ==
    PercentageCalled =>
        /\ \A i \in 1..Len(last.before_lines) :
              LET line == last.before_lines[i]
              IN  (\/ ~line.product.is_discountable
                   \/ ~contains_product(last.benefit.range, line.product)
                   \/ ~line.stockrecord
                   \/ line.unit_effective_price = 0)
                  => /\ lines[i] = line
                     /\ \A k \in 1..Len(last.affected_lines) :
                           last.affected_lines[k][1] # i
        /\ (\A i \in 1..Len(last.before_lines) :
               ~Eligible(last.before_lines[i]))
           => /\ ~last.result.is_successful
              /\ last.result = ZERO_DISCOUNT
              /\ last.affected_lines = <<>>
              /\ lines = last.before_lines

\* C18 witness: a basket of a non-discountable line and a discountable one:
\* only the second is discounted
C18_Witness ==
    /\ PercentageCalled
    /\ pc = "benefit"
    /\ Len(lines) = 2
    /\ ~lines[1].product.is_discountable
    /\ lines[1].affected_quantity = 0
    /\ lines[1].discount_value = 0
    /\ lines[2].affected_quantity = lines[2].quantity
    /\ last.result.is_successful

\* C19 as claimed: for every range, a custom one included, an excluded
\* product is not contained
C19_AsClaimed ==
    (op.name = "contains_product"
       /\ op.product.id \in op.before.excluded_products)
    => ~op.ret

\* C19 amended: for every range with the built-in membership logic (no
\* proxy_class) and every product, if the product is in the range's excluded
\* products then contains_product returns false, whatever the inclusion
\* settings are; a range with a proxy_class answers through its custom class,
\* which the excluded products do not bind.
C19_ExclusionWins ==
    (op.name = "contains_product"
       /\ ~IsSet(op.before.proxy_class)
       /\ op.product.id \in op.before.excluded_products)
    => ~op.ret

\* C19 witness: a product that every inclusion setting admits is excluded,
\* and the instance answers from the excluded ids it had cached
C19_Witness ==
    /\ op.name = "contains_product"
    /\ ~IsSet(op.before.proxy_class)
    /\ op.before.__excluded_product_ids.loaded
    /\ op.product.id \in op.before.excluded_products
    /\ op.before.includes_all_products
    /\ op.product.product_class_id \in op.before.classes
    /\ op.product.id \in op.before.included_products
    /\ op.product.categories = {2}
    /\ op.before.included_categories = {1}
    /\ ~op.product.blacklisted
    /\ ~op.ret

\* the related rows that decide a range's membership
Membership(self) ==
    <<self.includes_all_products, self.excluded_products,
      self.included_products, self.classes, self.included_categories>>

\* what the built-in membership logic is claimed to answer for the product,
\* read from the rows of the range
ClaimedContains(self, product) ==
    /\ ~Blacklisted(product)
    /\ product.id \notin self.excluded_products
    /\ \/ self.includes_all_products
       \/ product.product_class_id \in self.classes
       \/ product.id \in self.included_products
       \/ \E category \in product.categories :
             \E test_category \in self.included_categories :
                 category = test_category
                   \/ is_descendant_of(category, test_category)

\* C20: for a range with the built-in membership logic contains_product(p)
\* is false when p is blacklisted or excluded, and otherwise true exactly
\* when includes_all_products is set, or p's product class is one of the
\* range's classes, or p is an included product, or one of p's categories
\* equals or descends from an included category; the call changes no offer,
\* range membership or basket state.
C20_AsClaimed ==
    (op.name = "contains_product" /\ ~IsSet(op.before.proxy_class))
    => /\ op.ret = ClaimedContains(op.before, op.product)
       /\ Membership(rng) = Membership(op.before)
       /\ lines = <<>>
       /\ basket = <<>>
       /\ offers = <<>>

\* the value field lies in [0, 100]: a percentage of 0 to 100, an amount of
\* 0.00 to 100.00
ValueInRange(self) ==
    /\ self.value >= 0
    /\ self.value <= (IF self.type = "Shipping percentage" THEN 100 ELSE 10000)

\* C21: ShippingFixedPriceBenefit.shipping_discount(charge) is
\* max(0, charge - value), ShippingAbsoluteDiscountBenefit.shipping_discount is
\* min(charge, value), and for a value in [0, 100] the discount of every
\* shipping benefit lies between 0 and the charge.
C21_ShippingDiscount ==
    op.name = "shipping_discount" =>
        /\ (op.before.type = "Shipping fixed price"
              => op.ret = Max(0, op.charge - op.before.value))
        /\ (op.before.type = "Shipping absolute"
              => op.ret = Min(op.charge, op.before.value))
        /\ (ValueInRange(op.before) => op.ret >= 0 /\ op.ret <= op.charge)

\* C21 witness: shipping for 5.00 on a charge of 8.00 is discounted by 3.00
C21_Witness ==
    /\ op.name = "shipping_discount"
    /\ op.before.type = "Shipping fixed price"
    /\ op.before.value = 500
    /\ op.charge = 800
    /\ op.ret = 300

\* the instant lies inside the availability window of the offer
InWindow(self, at) ==
    /\ (IsSet(self.start_datetime) => self.start_datetime <= at)
    /\ (IsSet(self.end_datetime) => at <= self.end_datetime)

\* C22 as claimed: every offer get_offers returns has status Open and the
\* current time inside its availability window, and no offer that is
\* Suspended or Consumed is applied to the basket.
C22_AsClaimed ==
    /\ \A i \in 1..Len(offers) :
          offers[i].status = OPEN /\ InWindow(offers[i], stored.now)
    /\ \A k \in 1..Len(applications) :
          offers[applications[k].offer].status = OPEN

\* the checkouts that redeemed the offer: their orders recorded its usage
Redeemed == {p \in Checkouts : checkout[p].pc = "recorded"}

\* C23 as claimed: when two checkouts redeem an offer whose global cap leaves
\* one application, they do not both succeed; num_applications ends no greater
\* than max_global_applications and counts every record_usage call.
C23_AsClaimed ==
    (op.before.max_global_applications - op.before.num_applications = 1)
        => /\ Cardinality(Redeemed) <= 1
           /\ offer.num_applications <= offer.max_global_applications
           /\ offer.num_applications =
                  op.before.num_applications + Cardinality(Redeemed)

\* C24 as claimed: an offer whose benefit has an unrecognised type is left
\* out, its benefit is never applied, and no error aborts the pass.
C24_AsClaimed ==
    /\ pc # "raised"
    /\ (last.idx # 0 /\ last.invoked) => last.benefit.type \in BenefitTypes

\* C25: PercentageDiscountBenefit.apply calls condition.consume_items exactly
\* when the total of the line discounts it gave is greater than zero, that is
\* exactly when its result is successful.
C25_ConsumeIffDiscount ==
    PercentageCalled =>
        LET total == DiscountGiven(last.affected_lines,
                                   Len(last.affected_lines))
        IN  /\ last.result.discount = total
            /\ last.consumed <=> total > 0
            /\ last.consumed <=> last.result.is_successful

\* C25 witness: a call that went through a line and gave no discount, so
\* that no condition item was consumed
C25_Witness ==
    /\ PercentageCalled
    /\ Len(last.affected_lines) > 0
    /\ last.result.discount = 0
    /\ ~last.consumed

\* C26 as claimed: a PercentageDiscountBenefit.apply whose result is
\* unsuccessful leaves the discounted quantity of every line as it was.
C26_AsClaimed ==
    (PercentageCalled /\ ~last.result.is_successful) =>
        \A i \in 1..Len(lines) :
            lines[i].affected_quantity = last.before_lines[i].affected_quantity

\* C27: during Applicator.apply no discount is written to a basket line
\* before every offer has been processed; after the loop each basket line has
\* received exactly one write, which carries the line's accumulated discount
\* value and discounted quantity.
C27_SingleSettlement ==
    /\ pc \in {"start", "apply", "raised"} =>
          \A i \in 1..Len(basket) : basket[i] = Undiscounted(lines)[i]
    /\ pc = "done" =>
          /\ Len(basket) = Len(lines)
          /\ \A i \in 1..Len(basket) :
                /\ basket[i].writes = 1
                /\ basket[i].discount = lines[i].discount_value
                /\ basket[i].affected_quantity = lines[i].affected_quantity

\* C27 witness: a pass over two lines has settled; two offers discounted
\* units of the first line, no offer the second
C27_Witness ==
    /\ pc = "done"
    /\ Len(basket) = 2
    /\ Len(applications) = 2
    /\ basket[1].discount > 0
    /\ basket[1].affected_quantity = 2
    /\ basket[2].writes = 1

\* C28 as claimed: an unsuccessful application is not recorded and its offer
\* is not attempted again in the pass, and every later offer of the list that
\* has an application left is attempted whatever happened to the offers
\* before it.
C28_AsClaimed ==
    /\ (last.idx # 0 /\ ~last.result.is_successful) =>
          /\ NumRecorded(last.idx) = last.num_applications
          /\ pc = "apply" => idx > last.idx
    /\ pc \in {"done", "raised"} =>
          \A i \in 1..Len(offers) :
              may_apply(offers[i], 0, owner) => i \in Attempted

\* C29: ShippingBenefit.apply always returns a result that is successful,
\* final and affects shipping, not the basket total, and it discounts no
\* line; in one pass a shipping offer is recorded at most once, whatever
\* get_max_applications allows.
C29_ShippingOnce ==
    /\ (last.idx # 0 /\ last.invoked /\ last.benefit.type \in ShippingTypes) =>
          /\ last.result.is_successful
          /\ last.result.is_final
          /\ last.result.affects = SHIPPING
          /\ last.result.affects # BASKET
          /\ last.affected_lines = <<>>
          /\ lines = last.before_lines
          /\ last.num_applications = 0
    /\ \A i \in 1..Len(offers) :
          offers[i].benefit.type \in ShippingTypes => NumRecorded(i) <= 1

\* C29 witness: a shipping offer that get_max_applications allows 10000
\* applications has been recorded once when the pass ends
C29_Witness ==
    /\ pc = "done"
    /\ \E i \in 1..Len(offers) :
          /\ offers[i].benefit.type \in ShippingTypes
          /\ get_max_applications(offers[i], owner) = HardLimit
          /\ NumRecorded(i) = 1

\* C30 as claimed: on a Range instance with the built-in membership logic,
\* after add_product(p) contains_product(p) is true for p neither excluded
\* nor blacklisted, and after remove_product(p) a product that was contained
\* only through the included products is not contained, also when
\* contains_product had been called on the instance before.
C30_AsClaimed ==
    /\ (op.name = "add_product"
          /\ ~IsSet(rng.proxy_class)
          /\ op.product.id \notin rng.excluded_products
          /\ ~Blacklisted(op.product))
       => contains_product(rng, op.product)
    /\ (op.name = "remove_product"
          /\ ~IsSet(rng.proxy_class)
          /\ op.product.id \in op.before.included_products
          /\ ~ClaimedContains(rng, op.product))
       => ~contains_product(rng, op.product)

====
